---- MODULE Spec2Model ----
(***************************************************************************)
(* Model of the host discovery tool in src/src/main.rs: one line of input  *)
(* is validated (validate_ip_cidr / validate_ip_address), re-parsed into   *)
(* an address, a prefix and a mask, and every address of the loop          *)
(* `for i in 0..(1 << (32 - cidr_not_parse))` is pinged in turn.           *)
(*                                                                         *)
(* Text is a sequence of one-character strings.  A u32 is kept at its full *)
(* width as its four big-endian bytes <<b3, b2, b1, b0>> (what             *)
(* u32::from(Ipv4Addr) is made of); bit operations go through its 32 bits. *)
(***************************************************************************)
EXTENDS Integers, Sequences, FiniteSets, TLC

\* ------------------------------------------------------------------ bounds

\* Prefixes of the scanned inputs leave at most MaxHostBits host bits (and
\* the prefix 0, whose loop bound the code computes by an overflowing shift).
MaxHostBits == 2

\* ------------------------------------------------------------------- text

Digits == <<"0", "1", "2", "3", "4", "5", "6", "7", "8", "9">>

IsDigit(c) == \E d \in 1..10 : Digits[d] = c

DigitVal(c) == (CHOOSE d \in 1..10 : Digits[d] = c) - 1

\* char::is_whitespace on the characters the inputs use
IsSpace(c) == c \in {" ", "\n", "\t"}

RECURSIVE TrimStart(_)
TrimStart(s) ==
    IF s # <<>> /\ IsSpace(Head(s)) THEN TrimStart(Tail(s)) ELSE s

RECURSIVE TrimEnd(_)
TrimEnd(s) ==
    IF s # <<>> /\ IsSpace(s[Len(s)]) THEN TrimEnd(SubSeq(s, 1, Len(s) - 1))
    ELSE s

\* str::trim
Trim(s) == TrimEnd(TrimStart(s))

\* str::split(sep).collect(): the pieces between the separators, empty
\* pieces included; a text without separator is one piece.
RECURSIVE Split(_, _)
Split(s, sep) ==
    IF \A k \in 1..Len(s) : s[k] # sep THEN <<s>>
    ELSE LET k == CHOOSE j \in 1..Len(s) :
                      s[j] = sep /\ \A h \in 1..(j - 1) : s[h] # sep
         IN  <<SubSeq(s, 1, k - 1)>> \o Split(SubSeq(s, k + 1, Len(s)), sep)

\* The digit loop of from_str_radix for an unsigned type with maximum max:
\* acc is the value so far; -1 is Err (a non-digit, or a value above max).
RECURSIVE ParseDigits(_, _, _)
ParseDigits(s, acc, max) ==
    IF s = <<>> THEN acc
    ELSE IF ~IsDigit(Head(s)) THEN -1
    ELSE LET v == acc * 10 + DigitVal(Head(s))
         IN  IF v > max THEN -1 ELSE ParseDigits(Tail(s), v, max)

\* str::parse::<u8>(): an optional '+', then at least one digit, no other
\* character, value at most 255.  -1 is Err.
parse_u8(s) ==
    IF s = <<>> THEN -1
    ELSE LET body == IF Head(s) = "+" THEN Tail(s) ELSE s
         IN  IF body = <<>> THEN -1 ELSE ParseDigits(body, 0, 255)

\* std::fmt::Display of an unsigned integer: decimal, no leading zero.
RECURSIVE ToDecimal(_)
ToDecimal(n) ==
    IF n < 10 THEN <<Digits[n + 1]>>
    ELSE ToDecimal(n \div 10) \o <<Digits[(n % 10) + 1]>>

\* Ipv4Addr::to_string(): the four bytes in decimal joined by '.'
Ipv4ToString(a) ==
    ToDecimal(a[1]) \o <<".">> \o ToDecimal(a[2]) \o <<".">> \o
    ToDecimal(a[3]) \o <<".">> \o ToDecimal(a[4])

\* One byte of the Ipv4Addr parser: one to three digits, no leading zero on
\* a longer number, value at most 255.  -1 is Err.
parse_ipv4_octet(s) ==
    IF Len(s) = 0 \/ Len(s) > 3 THEN -1
    ELSE IF \E k \in 1..Len(s) : ~IsDigit(s[k]) THEN -1
    ELSE IF Len(s) > 1 /\ s[1] = "0" THEN -1
    ELSE ParseDigits(s, 0, 255)

\* str::parse::<Ipv4Addr>(): exactly four bytes separated by '.', nothing
\* before, between or after them.  <<>> is Err.
parse_Ipv4Addr(s) ==
    LET parts == Split(s, ".")
    IN  IF Len(parts) # 4 THEN <<>>
        ELSE IF \E k \in 1..4 : parse_ipv4_octet(parts[k]) = -1 THEN <<>>
        ELSE [k \in 1..4 |-> parse_ipv4_octet(parts[k])]

\* str::parse::<u32>(): as parse_u8 with the maximum 4294967295; the
\* overflow test `acc * 10 + d > u32::MAX` is made on acc before multiplying.
RECURSIVE ParseDigitsU32(_, _)
ParseDigitsU32(s, acc) ==
    IF s = <<>> THEN acc
    ELSE IF ~IsDigit(Head(s)) THEN -1
    ELSE IF acc > 429496729 \/ (acc = 429496729 /\ DigitVal(Head(s)) > 5)
         THEN -1
    ELSE ParseDigitsU32(Tail(s), acc * 10 + DigitVal(Head(s)))

parse_u32(s) ==
    IF s = <<>> THEN -1
    ELSE LET body == IF Head(s) = "+" THEN Tail(s) ELSE s
         IN  IF body = <<>> THEN -1 ELSE ParseDigitsU32(body, 0)

\* -------------------------------------------------------------------- u32

U32Zero == <<0, 0, 0, 0>>

U32One == <<0, 0, 0, 1>>

\* the 32 bits of a u32, most significant first
U32Bits(u) ==
    [k \in 1..32 |-> (u[((k - 1) \div 8) + 1] \div (2 ^ (7 - ((k - 1) % 8)))) % 2]

U32FromBits(b) ==
    [j \in 1..4 |->
        LET o == 8 * (j - 1)
        IN  b[o + 1] * 128 + b[o + 2] * 64 + b[o + 3] * 32 + b[o + 4] * 16 +
            b[o + 5] * 8 + b[o + 6] * 4 + b[o + 7] * 2 + b[o + 8]]

\* a & b
BitAnd(a, b) ==
    LET x == U32Bits(a)
        y == U32Bits(b)
    IN  U32FromBits([k \in 1..32 |-> x[k] * y[k]])

\* a | b
BitOr(a, b) ==
    LET x == U32Bits(a)
        y == U32Bits(b)
    IN  U32FromBits([k \in 1..32 |-> IF x[k] = 1 \/ y[k] = 1 THEN 1 ELSE 0])

\* !a
BitNot(a) == [j \in 1..4 |-> 255 - a[j]]

\* a >> n and a << n for a shift amount n < 32
Shr(a, n) ==
    LET x == U32Bits(a)
    IN  U32FromBits([k \in 1..32 |-> IF k <= n THEN 0 ELSE x[k - n]])

Shl(a, n) ==
    LET x == U32Bits(a)
    IN  U32FromBits([k \in 1..32 |-> IF k + n <= 32 THEN x[k + n] ELSE 0])

\* u32::checked_shr(n).unwrap_or(0): None of a shift by 32 or more becomes 0
checked_shr_or_0(a, n) == IF n < 32 THEN Shr(a, n) ELSE U32Zero

\* a < b and a + 1, as the range 0..bound uses them on its counter
U32Less(a, b) ==
    \E j \in 1..4 : a[j] < b[j] /\ \A h \in 1..(j - 1) : a[h] = b[h]

U32Succ(a) ==
    IF a[4] < 255 THEN <<a[1], a[2], a[3], a[4] + 1>>
    ELSE IF a[3] < 255 THEN <<a[1], a[2], a[3] + 1, 0>>
    ELSE IF a[2] < 255 THEN <<a[1], a[2] + 1, 0, 0>>
    ELSE <<(a[1] + 1) % 256, 0, 0, 0>>

\* ------------------------------------------------------------- validation

\* validate_ip_address: four pieces between '.', each of them a u8.  (The
\* test `value > 255` of the source can never be true of a u8.)
validate_ip_address(ip_address) ==
    LET octets == Split(ip_address, ".")
    IN  /\ Len(octets) = 4
        /\ \A k \in 1..4 : parse_u8(octets[k]) # -1 /\ ~(parse_u8(octets[k]) > 255)

\* validate_ip_cidr with the prefix examined before the address
validate_ip_cidr_prefix_first(input) ==
    LET parts == Split(input, "/")
    IN  IF Len(parts) # 2
        THEN [ok |-> FALSE, err |-> "Invalid format, expected IP with CIDR prefix."]
        ELSE IF parse_u8(Trim(parts[2])) = -1
        THEN [ok |-> FALSE, err |-> "Invalid CIDR prefix."]
        ELSE IF parse_u8(Trim(parts[2])) > 32
        THEN [ok |-> FALSE, err |-> "CIDR prefix must be a number between 0 - 32."]
        ELSE IF ~validate_ip_address(Trim(parts[1]))
        THEN [ok |-> FALSE, err |-> "Invalid IP address."]
        ELSE [ok |-> TRUE, ip |-> Trim(parts[1]), cidr |-> parse_u8(Trim(parts[2]))]

\* validate_ip_cidr with the range test `cidr_prefix >= 32`
validate_ip_cidr_below_32(input) ==
    LET parts == Split(input, "/")
    IN  IF Len(parts) # 2
        THEN [ok |-> FALSE, err |-> "Invalid format, expected IP with CIDR prefix."]
        ELSE IF ~validate_ip_address(Trim(parts[1]))
        THEN [ok |-> FALSE, err |-> "Invalid IP address."]
        ELSE IF parse_u8(Trim(parts[2])) = -1
        THEN [ok |-> FALSE, err |-> "Invalid CIDR prefix."]
        ELSE IF parse_u8(Trim(parts[2])) >= 32
        THEN [ok |-> FALSE, err |-> "CIDR prefix must be a number between 0 - 32."]
        ELSE [ok |-> TRUE, ip |-> Trim(parts[1]), cidr |-> parse_u8(Trim(parts[2]))]

\* validate_ip_cidr: Ok((ip_address, cidr_prefix)) or Err(message)
validate_ip_cidr(input) ==
    LET parts == Split(input, "/")
    IN  IF Len(parts) # 2
        THEN [ok |-> FALSE, err |-> "Invalid format, expected IP with CIDR prefix."]
        ELSE IF ~validate_ip_address(Trim(parts[1]))
        THEN [ok |-> FALSE, err |-> "Invalid IP address."]
        ELSE IF parse_u8(Trim(parts[2])) = -1
        THEN [ok |-> FALSE, err |-> "Invalid CIDR prefix."]
        ELSE IF parse_u8(Trim(parts[2])) > 32
        THEN [ok |-> FALSE, err |-> "CIDR prefix must be a number between 0 - 32."]
        ELSE [ok |-> TRUE, ip |-> Trim(parts[1]), cidr |-> parse_u8(Trim(parts[2]))]

\* ----------------------------------------------------------------- inputs

\* decimal numbers joined by '.'
RECURSIVE Dotted(_)
Dotted(ns) ==
    IF Len(ns) = 0 THEN <<>>
    ELSE IF Len(ns) = 1 THEN ToDecimal(ns[1])
    ELSE ToDecimal(ns[1]) \o <<".">> \o Dotted(Tail(ns))

Line(ns, p) == Dotted(ns) \o <<"/">> \o ToDecimal(p)

\* a descriptor written as "A.B.C.D/N"
Serialize(D) == Ipv4ToString(D.octets) \o <<"/">> \o ToDecimal(D.prefix)

NoDescriptor == [octets |-> <<>>, prefix |-> -1]

BaseSamples ==
    {<<192, 168, 1, 0>>, <<192, 168, 1, 5>>, <<10, 0, 0, 1>>, <<255, 255, 255, 255>>}

ScanPrefixes == {0} \cup ((32 - MaxHostBits)..32)

ScanDescriptors == [octets : BaseSamples, prefix : ScanPrefixes]

\* lines the validator rejects
RejectedLines ==
    { Dotted(<<10, 0, 0, 1>>),
      Line(<<10, 0, 0, 1>>, 30) \o <<"/", "1">>,
      Line(<<10, 0, 0, 1>>, 33),
      Line(<<10, 0, 0, 256>>, 24),
      Line(<<10, 0, 0>>, 24),
      Line(<<10, 0, 0, 256>>, 33),
      Line(<<10, 0, 0>>, 33),
      Line(<<10, 0, 0, 1, 5>>, 30),
      Line(<<10, 0, 0, 1>>, 300),
      Dotted(<<10, 0, 0, 256>>),
      Line(<<10, 0, 0, 1>>, 33) \o <<"/", "1">>,
      Dotted(<<10, 0, 0, 1>>) \o <<"/">>,
      <<"/">> \o ToDecimal(30),
      Dotted(<<10, 0, 0, 1>>) \o <<"/", "3", "a">>,
      Dotted(<<10, 0, 0, 1>>) \o <<"/", "-", "1">>,
      Dotted(<<10, 0, 0>>) \o <<".", "-", "1", "/", "3", "0">>,
      Dotted(<<10, 0>>) \o <<".", "a", ".", "1", "/", "3", "0">>,
      Dotted(<<10>>) \o <<".", ".", "0", ".", "1", "/", "3", "0">>,
      Dotted(<<10>>) \o <<".", " ", "0", ".", "0", ".", "1", "/", "3", "0">>,
      <<>> }

\* lines the validator accepts that are not the plain "A.B.C.D/N"
UntidyLines ==
    { Dotted(<<10, 0, 0, 1>>) \o <<" ", "/", "3", "0">>,
      Dotted(<<10, 0, 0, 1>>) \o <<"/", " ", "3", "0">>,
      <<"0">> \o Line(<<10, 0, 0, 1>>, 30),
      <<"+">> \o Line(<<10, 0, 0, 1>>, 30),
      Dotted(<<10, 0, 0, 1>>) \o <<"/", "+", "3", "0">>,
      Dotted(<<10, 0, 0, 1>>) \o <<"/", "0", "3", "0">>,
      <<" ">> \o Line(<<10, 0, 0, 1>>, 30) \o <<"\n">> }

\* what `ping <address> -c 1` can hand back once it was started: a reply,
\* no reply, a failure of ping itself (message on stderr, nothing on
\* stdout), or bytes on stdout that are not UTF-8.  stdout is kept as words.
Replied == [utf8 |-> TRUE, status |-> 0, stdout |-> <<"1", "transmitted", "1", "received">>]

Silent == [utf8 |-> TRUE, status |-> 1, stdout |-> <<"1", "transmitted", "0", "received">>]

MechError == [utf8 |-> TRUE, status |-> 2, stdout |-> <<>>]

Garbled == [utf8 |-> FALSE, status |-> 0, stdout |-> <<>>]

NoOutput == [utf8 |-> TRUE, status |-> -1, stdout |-> <<>>]

PingOutputs == {Replied, Silent, MechError, Garbled}

\* str::contains
Contains(s, pat) ==
    \E k \in 1..(Len(s) - Len(pat) + 1) : SubSeq(s, k, k + Len(pat) - 1) = pat

\* ------------------------------------------------------------------ state

VARIABLES
    descriptor,       \* the descriptor the line was written from, if any
    ip_cidr,          \* the trimmed input line
    pc,               \* where main is
    validated,        \* what validate_ip_cidr returned
    ip_address_u32,   \* the re-parsed address
    cidr_not_parse,   \* the re-parsed prefix
    subnet_mask_u32,  \* the mask
    bound,            \* the exclusive end of the loop's range
    i,                \* the loop counter
    in_flight,        \* the addresses whose ping is running
    ping_out,         \* the output of the last ping that ended
    total_count,
    up_count,
    up_ips,
    events,           \* the per-address lines printed so far
    probes,           \* the addresses ping was called for so far
    stderr,           \* the error shown to the user, if any
    summary           \* the results printed at the end, if any

vars == <<descriptor, ip_cidr, pc, validated, ip_address_u32, cidr_not_parse,
          subnet_mask_u32, bound, i, in_flight, ping_out, total_count,
          up_count, up_ips, events, probes, stderr, summary>>

NotValidated == [ok |-> FALSE, err |-> ""]

NoError == [kind |-> "", detail |-> ""]

NoSummary == [up_ips |-> <<>>, total_count |-> -1, up_count |-> -1]

InitRest ==
    /\ pc = "Validating"
    /\ validated = NotValidated
    /\ ip_address_u32 = <<>>
    /\ cidr_not_parse = -1
    /\ subnet_mask_u32 = <<>>
    /\ bound = <<>>
    /\ i = U32Zero
    /\ in_flight = <<>>
    /\ ping_out = NoOutput
    /\ total_count = 0
    /\ up_count = 0
    /\ up_ips = <<>>
    /\ events = <<>>
    /\ probes = <<>>
    /\ stderr = NoError
    /\ summary = NoSummary

\* main, lines 72-77: the line is read and trimmed
Init ==
    /\ \/ \E D \in ScanDescriptors :
            descriptor = D /\ ip_cidr = Trim(Serialize(D))
       \/ \E l \in RejectedLines \cup UntidyLines :
            descriptor = NoDescriptor /\ ip_cidr = Trim(l)
    /\ InitRest

\* ---------------------------------------------------------------- actions

\* what the shift `1 << (32 - cidr_not_parse)` of line 113 can give in u32:
\* a shift by 32 or more (or a subtraction below 0) overflows, which panics
\* in a build with overflow checks (<<>>) and shifts by the amount mod 32 in
\* a build without them.
LoopBounds(p) ==
    IF 1 <= p /\ p <= 32 THEN {Shl(U32One, 32 - p)}
    ELSE {<<>>, Shl(U32One, (32 - p) % 32)}

\* `!0u32.checked_shr(n).unwrap_or(0)`: the method calls bind tighter than
\* the `!`, so this is !(0u32.checked_shr(n).unwrap_or(0)).
SubnetMask(n) == BitNot(checked_shr_or_0(U32Zero, n))

\* `ip_address_u32 & subnet_mask_u32 | i`, line 114
AddressAt(ip, mask, k) == BitOr(BitAnd(ip, mask), k)

\* the match made on "received" alone
ReceivedAnyCount(stdout) == Contains(stdout, <<"received">>)

\* `ping_stdout.contains("1 received")`, line 130
Received(stdout) == Contains(stdout, <<"1", "received">>)

\* Validate without the `return` of the Err arm
ValidateNoReturn ==
    /\ pc = "Validating"
    /\ LET r == validate_ip_cidr(ip_cidr)
       IN  /\ validated' = r
           /\ pc' = "Parsing"
           /\ IF r.ok
              THEN stderr' = stderr
              ELSE stderr' = [kind |-> "validation", detail |-> r.err]
    /\ UNCHANGED <<descriptor, ip_cidr, ip_address_u32, cidr_not_parse,
                   subnet_mask_u32, bound, i, in_flight, ping_out, total_count,
                   up_count, up_ips, events, probes, summary>>

\* lines 80-86: validate; on Err print the message and return
Validate ==
    /\ pc = "Validating"
    /\ LET r == validate_ip_cidr(ip_cidr)
       IN  /\ validated' = r
           /\ IF r.ok
              THEN pc' = "Parsing" /\ stderr' = stderr
              ELSE pc' = "Failed" /\ stderr' = [kind |-> "validation", detail |-> r.err]
    /\ UNCHANGED <<descriptor, ip_cidr, ip_address_u32, cidr_not_parse,
                   subnet_mask_u32, bound, i, in_flight, ping_out, total_count,
                   up_count, up_ips, events, probes, summary>>

\* lines 89-107: the raw line is split again and its two pieces are parsed,
\* untrimmed, with unwrap
Parse ==
    /\ pc = "Parsing"
    /\ LET parts == Split(ip_cidr, "/")
           a == parse_Ipv4Addr(parts[1])
           n == parse_u32(parts[2])
       IN  IF Len(parts) < 2
           THEN /\ pc' = "Failed"
                /\ stderr' = [kind |-> "panic", detail |-> "parts.next().unwrap()"]
                /\ UNCHANGED <<ip_address_u32, cidr_not_parse, subnet_mask_u32>>
           ELSE IF a = <<>>
           THEN /\ pc' = "Failed"
                /\ stderr' = [kind |-> "panic", detail |-> "parse::<Ipv4Addr>().unwrap()"]
                /\ UNCHANGED <<ip_address_u32, cidr_not_parse, subnet_mask_u32>>
           ELSE IF n = -1
           THEN /\ pc' = "Failed"
                /\ stderr' = [kind |-> "panic", detail |-> "cidr_not.parse().unwrap()"]
                /\ UNCHANGED <<ip_address_u32, cidr_not_parse, subnet_mask_u32>>
           ELSE /\ pc' = "Enumerating"
                /\ ip_address_u32' = a
                /\ cidr_not_parse' = n
                /\ subnet_mask_u32' = SubnetMask(n)
                /\ stderr' = stderr
    /\ up_ips' = <<>>
    /\ total_count' = 0
    /\ up_count' = 0
    /\ UNCHANGED <<descriptor, ip_cidr, validated, bound, i, in_flight, ping_out,
                   events, probes, summary>>

\* line 113: the range of the loop is built
Enumerate ==
    /\ pc = "Enumerating"
    /\ \E b \in LoopBounds(cidr_not_parse) :
         IF b = <<>>
         THEN /\ pc' = "Failed"
              /\ stderr' = [kind |-> "panic", detail |-> "attempt to shift left with overflow"]
              /\ UNCHANGED <<bound, i>>
         ELSE /\ pc' = "Probing"
              /\ bound' = b
              /\ i' = U32Zero
              /\ stderr' = stderr
    /\ UNCHANGED <<descriptor, ip_cidr, validated, ip_address_u32, cidr_not_parse,
                   subnet_mask_u32, in_flight, ping_out, total_count, up_count,
                   up_ips, events, probes, summary>>

\* Dispatch that does not wait for the running ping to end
DispatchNoWait ==
    /\ pc = "Probing"
    /\ Len(probes) < 3
    /\ U32Less(i, bound)
    /\ LET address_u32 == AddressAt(ip_address_u32, subnet_mask_u32, i)
           address == Ipv4ToString(address_u32)
       IN  /\ probes' = Append(probes, address_u32)
           /\ in_flight' = Append(in_flight, address)
    /\ UNCHANGED <<descriptor, ip_cidr, pc, validated, ip_address_u32,
                   cidr_not_parse, subnet_mask_u32, bound, i, ping_out,
                   total_count, up_count, up_ips, events, stderr, summary>>

\* lines 113-124: the next address of the range is formed and ping is
\* started for it; a ping that cannot be started makes unwrap panic
Dispatch ==
    /\ pc = "Probing"
    /\ in_flight = <<>>
    /\ U32Less(i, bound)
    /\ LET address_u32 == AddressAt(ip_address_u32, subnet_mask_u32, i)
           address == Ipv4ToString(address_u32)
       IN  /\ probes' = Append(probes, address_u32)
           /\ \E started \in BOOLEAN :
                IF started
                THEN in_flight' = Append(in_flight, address) /\ pc' = pc /\ stderr' = stderr
                ELSE /\ in_flight' = in_flight
                     /\ pc' = "Failed"
                     /\ stderr' = [kind |-> "panic", detail |-> "Command::output().unwrap()"]
    /\ UNCHANGED <<descriptor, ip_cidr, validated, ip_address_u32, cidr_not_parse,
                   subnet_mask_u32, bound, i, ping_out, total_count, up_count,
                   up_ips, events, summary>>

\* lines 123-139: ping ends; its stdout is decoded, the address is counted,
\* classified by `contains("1 received")`, printed, and the loop moves on
Complete ==
    /\ pc = "Probing"
    /\ in_flight # <<>>
    /\ \E out \in PingOutputs :
         /\ ping_out' = out
         /\ in_flight' = Tail(in_flight)
         /\ IF ~out.utf8
            THEN /\ pc' = "Failed"
                 /\ stderr' = [kind |-> "panic", detail |-> "String::from_utf8().unwrap()"]
                 /\ UNCHANGED <<total_count, up_count, up_ips, events, i>>
            ELSE /\ total_count' = total_count + 1
                 /\ IF Received(out.stdout)
                    THEN /\ up_count' = up_count + 1
                         /\ events' = Append(events, [address |-> Head(in_flight), reachable |-> TRUE])
                         /\ up_ips' = Append(up_ips, Head(in_flight))
                    ELSE /\ events' = Append(events, [address |-> Head(in_flight), reachable |-> FALSE])
                         /\ UNCHANGED <<up_count, up_ips>>
                 /\ i' = U32Succ(i)
                 /\ pc' = pc
                 /\ stderr' = stderr
    /\ UNCHANGED <<descriptor, ip_cidr, validated, ip_address_u32, cidr_not_parse,
                   subnet_mask_u32, bound, probes, summary>>

\* lines 142-153: the range is exhausted; the results are printed
Finish ==
    /\ pc = "Probing"
    /\ in_flight = <<>>
    /\ ~U32Less(i, bound)
    /\ summary' = [up_ips |-> up_ips, total_count |-> total_count, up_count |-> up_count]
    /\ pc' = "Finalized"
    /\ UNCHANGED <<descriptor, ip_cidr, validated, ip_address_u32, cidr_not_parse,
                   subnet_mask_u32, bound, i, in_flight, ping_out, total_count,
                   up_count, up_ips, events, probes, stderr>>

Next == Validate \/ Parse \/ Enumerate \/ Dispatch \/ Complete \/ Finish

Spec == Init /\ [][Next]_vars

\* ------------------------------------------------- round trip of the input

OctetSamples == {0, 9, 10, 100, 255}

Descriptors ==
    [octets : {<<a, b, c, d>> : a \in OctetSamples, b \in OctetSamples,
                                c \in OctetSamples, d \in OctetSamples},
     prefix : 0..32]

\* every sampled descriptor, written as "A.B.C.D/N", is the line read
InitRoundTrip ==
    /\ \E D \in Descriptors : descriptor = D /\ ip_cidr = Trim(Serialize(D))
    /\ InitRest

\* validation and the re-parse of lines 89-107, the loop left out
NextRoundTrip == Validate \/ Parse

SpecRoundTrip == InitRoundTrip /\ [][NextRoundTrip]_vars

\* ----------------------------------------------------------------- claims

\* the mask with p leading one-bits followed by 32 - p zero-bits
PrefixMask(p) == U32FromBits([k \in 1..32 |-> IF k <= p THEN 1 ELSE 0])

\* n = 2^(32 - p), for a count n below 2^31
IsHostCount(n, p) == IF 32 - p > 30 THEN FALSE ELSE n = 2 ^ (32 - p)

\* the u32 of a number below 256
SmallU32(n) == <<0, 0, 0, n>>

\* C1: a finished scan has probed exactly 2^(32-p) addresses, no address
\* twice, every one of them equal to the base address under the mask with p
\* leading one-bits; for p = 32 it has probed the base address alone.
\* (Stated for the prefixes 1..32; the prefix 0 is the subject of C3.)
C1_ScanCoversSubnetOnce ==
    (pc = "Finalized" /\ cidr_not_parse >= 1) =>
        /\ IsHostCount(Len(probes), cidr_not_parse)
        /\ \A j, k \in 1..Len(probes) : j # k => probes[j] # probes[k]
        /\ \A k \in 1..Len(probes) :
             BitAnd(probes[k], PrefixMask(cidr_not_parse))
                = BitAnd(ip_address_u32, PrefixMask(cidr_not_parse))
        /\ cidr_not_parse = 32 => probes = <<ip_address_u32>>

\* C2: the mask the scan computes for prefix p has p leading one-bits, and
\* the k-th address probed (k from 0) is (base & mask) | k with that mask.
C2_KthAddressIsNetworkBasePlusK ==
    pc \in {"Enumerating", "Probing", "Finalized"} =>
        /\ subnet_mask_u32 = PrefixMask(cidr_not_parse)
        /\ \A k \in 1..Len(probes) :
             probes[k] = BitOr(BitAnd(ip_address_u32, PrefixMask(cidr_not_parse)),
                               SmallU32(k - 1))

\* C3: for prefix 0 the loop bound is computed without overflow and the scan
\* probes the whole address space: it does not abort on the bound, and when
\* it has finished every address (here: every sampled one) has been probed.
C3_PrefixZeroCoversAll ==
    (pc \notin {"Validating", "Parsing"} /\ cidr_not_parse = 0) =>
        /\ stderr.detail # "attempt to shift left with overflow"
        /\ pc = "Finalized" =>
             /\ Len(probes) > 1
             /\ \A a \in BaseSamples : \E k \in 1..Len(probes) : probes[k] = a

\* C7: a scan fails only by a validation error or by a failure of the probe
\* mechanism; an input the validator accepted never aborts otherwise.
C7_FailedOnlyByValidationOrProbe ==
    pc = "Failed" =>
        \/ stderr.kind = "validation"
        \/ stderr.detail \in {"Command::output().unwrap()", "String::from_utf8().unwrap()"}

\* C8: a ping that was started but failed itself (no replies observed, an
\* error status) ends the scan in Failed with the error shown; it is not
\* recorded as an unreachable host.
C8_ProbeFailureNotSwallowed ==
    ping_out.status \notin {-1, 0, 1} =>
        /\ pc = "Failed"
        /\ stderr # NoError
        /\ (events = <<>> \/ events[Len(events)].address # Ipv4ToString(probes[Len(probes)])
                          \/ Len(events) < Len(probes))

\* the addresses of the events that say reachable, in their order
UpAddresses(ev) ==
    LET r == SelectSeq(ev, LAMBDA e : e.reachable)
    IN  [k \in 1..Len(r) |-> r[k].address]

ProbeFailures == {"Command::output().unwrap()", "String::from_utf8().unwrap()"}

CountChar(s, c) == Cardinality({k \in 1..Len(s) : s[k] = c})

RECURSIVE DecimalValue(_)
DecimalValue(s) ==
    IF s = <<>> THEN 0
    ELSE DecimalValue(SubSeq(s, 1, Len(s) - 1)) * 10 + DigitVal(s[Len(s)])

\* s is an unsigned integer (digits, with an optional '+') of at most max
UnsignedAtMost(s, max) ==
    LET b == IF s # <<>> /\ Head(s) = "+" THEN Tail(s) ELSE s
    IN  /\ b # <<>>
        /\ \A k \in 1..Len(b) : IsDigit(b[k])
        /\ Len(b) <= 6
        /\ DecimalValue(b) <= max

AddressPartOk(a) ==
    /\ CountChar(a, ".") = 3
    /\ \A k \in 1..4 : UnsignedAtMost(Split(a, ".")[k], 255)

AsWritten(s) == s

\* the outcome the claim gives for an input, its two parts taken through T
ExpectedOutcome(input, T(_)) ==
    IF CountChar(input, "/") # 1 THEN "MalformedInput"
    ELSE IF ~AddressPartOk(T(Split(input, "/")[1])) THEN "InvalidAddress"
    ELSE IF ~UnsignedAtMost(T(Split(input, "/")[2]), 32) THEN "InvalidPrefix"
    ELSE "Ok"

\* the error kind of a result of validate_ip_cidr
Outcome(r) ==
    IF r.ok THEN "Ok"
    ELSE IF r.err = "Invalid format, expected IP with CIDR prefix." THEN "MalformedInput"
    ELSE IF r.err = "Invalid IP address." THEN "InvalidAddress"
    ELSE IF r.err \in {"Invalid CIDR prefix.", "CIDR prefix must be a number between 0 - 32."}
         THEN "InvalidPrefix"
    ELSE "other"

\* C5 as stated: validation gives MalformedInput iff the input is not two
\* parts around one '/', else InvalidAddress iff the address part is not four
\* unsigned integers in 0..255 around '.', else InvalidPrefix iff the prefix
\* part is not an unsigned integer of at most 32, else succeeds.
C5_ValidationOrder_AsStated ==
    pc # "Validating" => Outcome(validated) = ExpectedOutcome(ip_cidr, AsWritten)

\* C5, amended: the same, with the address part and the prefix part taken
\* after the whitespace around each of them is trimmed.
C5_ValidationOrder ==
    pc # "Validating" => Outcome(validated) = ExpectedOutcome(ip_cidr, Trim)

C5_Witness ==
    /\ pc = "Failed"
    /\ ip_cidr = Line(<<10, 0, 0, 256>>, 33)
    /\ stderr = [kind |-> "validation", detail |-> "Invalid IP address."]

\* C6: after a failed validation the scan is in Failed with the validation
\* error shown, no ping was started, no event printed, no counter touched.
C6_FailedValidationProbesNothing ==
    (pc # "Validating" /\ ~validated.ok) =>
        /\ pc = "Failed"
        /\ stderr = [kind |-> "validation", detail |-> validated.err]
        /\ probes = <<>>
        /\ in_flight = <<>>
        /\ events = <<>>
        /\ total_count = 0 /\ up_count = 0 /\ up_ips = <<>>
        /\ summary = NoSummary

C6_Witness ==
    /\ pc = "Failed"
    /\ ~validated.ok
    /\ stderr = [kind |-> "validation",
                 detail |-> "CIDR prefix must be a number between 0 - 32."]

\* C9: a descriptor written as "A.B.C.D/N" validates, the validator returns
\* its address text and its prefix, and the address and prefix the scan
\* re-parses are those of the descriptor.
C9_RoundTrip ==
    descriptor # NoDescriptor =>
        /\ pc # "Validating" =>
              validated = [ok |-> TRUE, ip |-> Dotted(descriptor.octets),
                           cidr |-> descriptor.prefix]
        /\ pc \notin {"Validating", "Parsing"} =>
              /\ ip_address_u32 = descriptor.octets
              /\ cidr_not_parse = descriptor.prefix

C9_Witness ==
    /\ pc = "Enumerating"
    /\ descriptor = [octets |-> <<255, 100, 10, 0>>, prefix |-> 32]
    /\ ip_address_u32 = <<255, 100, 10, 0>>

\* the pings started that have neither ended nor failed to start
Unfinished ==
    Len(probes) - Len(events) - (IF pc = "Failed" /\ stderr.detail \in ProbeFailures THEN 1 ELSE 0)

C10_OneAtATime ==
    /\ Len(in_flight) <= 1
    /\ Unfinished = Len(in_flight)
    /\ \A k \in 1..Len(events) : events[k].address = Ipv4ToString(probes[k])
    /\ pc = "Finalized" => in_flight = <<>> /\ Len(events) = Len(probes)

C10_InTurn ==
    /\ Len(probes') > Len(probes) =>
          /\ in_flight = <<>>
          /\ Len(events) = Len(probes)
          /\ total_count = Len(probes)
    /\ Len(events') > Len(events) => Len(events') = Len(events) + 1
    /\ summary' # summary =>
          /\ events' = events
          /\ Len(events) = Len(probes)
          /\ in_flight = <<>>
    /\ pc = "Finalized" => events' = events

\* C10: at most one ping runs at a time; a ping is started only when every
\* earlier one has ended, been counted and had its event printed; there is
\* one event per probed address, in the order probed; the summary comes
\* after the last event.
C10_Sequential == [](C10_OneAtATime) /\ [][C10_InTurn]_vars

C10_Witness ==
    /\ pc = "Finalized"
    /\ Len(events) = 4
    /\ Len(probes) = 4

====
